---- MODULE Spec2Model ----
(***************************************************************************)
(* A model of the wiki agent (WikiAgent, StorageFactory, StorjStorage):    *)
(* the per-domain state cache, the index rebuild, and the document CRUD    *)
(* handlers, with every await of the JavaScript code as a scheduling       *)
(* point.  Text values (document ids, titles, bodies, file names) are      *)
(* sequences of one-character strings, so that sanitizeFilename, the       *)
(* rebuild's file-name match and the template body are computed.           *)
(***************************************************************************)
EXTENDS Integers, Sequences, FiniteSets, TLC

VARIABLES
  config,     \* the domain's configuration, as new Config().read('/' + domain) finds it
  epistery,   \* whether the role oracle (this.epistery) is attached
  files,      \* the durable store of the domain: file name -> parsed content
  cached,     \* this.domainStates: 0, or the id of the cached {storage, index}
  index,      \* index[o]: the Map of the state object constructed by request o
  clock,      \* what new Date() returns
  pc,         \* pc[p]: where request p stands (an await, or idle/done)
  req,        \* req[p]: the request's inputs
  loc,        \* loc[p]: the request's local variables
  resp,       \* resp[p]: the response sent
  budget,     \* requests and environment events still to come
  scope,      \* the requests of a run: how many at once, and their inputs
  built,      \* history: state objects constructed since the process started
  rbWrites,   \* history: rebuild-driven writes of index.json issued since then
  lastPut,    \* history: the last Put that returned 200, until the next mutation
  lastDel,    \* history: ids deleted with success and not Put since
  written,    \* history: ids whose Put returned 200 and that were not deleted since
  lost,       \* history: index.json was deleted out-of-band and not written since
  faults      \* history: how many storage calls have failed

vars == <<config, epistery, files, cached, index, clock, pc, req, loc, resp,
          budget, scope, built, rbWrites, lastPut, lastDel, written, lost, faults>>

----------------------------------------------------------------------------
(* Bounds of the model. *)

NumProcs == 2   \* request slots (requests in flight at once under Spec)
MaxOps == 5     \* the cost of the requests and events of a run under Spec
MaxSeqOps == 5  \* the same under SeqSpec, where one request runs at a time
MaxClock == 1   \* how far the clock advances
MaxFaults == 1  \* storage calls that fail in a run

Procs == 1..NumProcs

----------------------------------------------------------------------------
(* Text. *)

UNDEF == "undefined"          \* JavaScript's undefined, for an address
Empty == <<>>

Lower == {"a", "b", "c", "d", "e", "i", "j", "m", "n", "o", "s", "x"}
Upper == {"H", "T", "B", "P"}
Digit == {"1", "2"}
WordChar == Lower \cup Upper \cup Digit \cup {"_"}      \* [A-Za-z0-9_]
SafeChar == WordChar \cup {"-"}                          \* [a-zA-Z0-9_-]

Home == <<"H", "o", "m", "e">>
Doc_a_bc == <<"a", "_", "b", "c">>
Doc_ab == <<"a", "b">>
Doc_a_dash_b == <<"a", "-", "b">>
Absent == <<"undefined">>       \* JavaScript's undefined, for a text
T1 == <<"T", "1">>
T2 == <<"T", "2">>
B1 == <<"B", "1">>
B2 == <<"B", "2">>

RECURSIVE Strip(_, _)
\* s.replace(/c/g, '')
Strip(c, s) ==
  IF s = <<>> THEN <<>>
  ELSE (IF Head(s) = c THEN <<>> ELSE <<Head(s)>>) \o Strip(c, Tail(s))

SanitizeChar(c) == IF c \in SafeChar THEN c ELSE "_"
RECURSIVE sanitizeFilename(_)
\* name.replace(/[^a-zA-Z0-9_-]/g, '_')
sanitizeFilename(name) ==
  IF name = <<>> THEN <<>>
  ELSE <<SanitizeChar(Head(name))>> \o sanitizeFilename(Tail(name))

DocPrefix == <<"d", "o", "c", "_">>
JsonSuffix == <<".", "j", "s", "o", "n">>
IndexFile == <<"i", "n", "d", "e", "x">> \o JsonSuffix

DocFile(docId) == DocPrefix \o sanitizeFilename(docId) \o JsonSuffix

\* filename.match(/^doc_(.+)\.json$/)
IsDocFile(f) ==
  /\ Len(f) >= Len(DocPrefix) + 1 + Len(JsonSuffix)
  /\ SubSeq(f, 1, Len(DocPrefix)) = DocPrefix
  /\ SubSeq(f, Len(f) - Len(JsonSuffix) + 1, Len(f)) = JsonSuffix

MatchGroup(f) == SubSeq(f, Len(DocPrefix) + 1, Len(f) - Len(JsonSuffix))

\* match[1].replace(/_/g, '')
RebuiltId(f) == Strip("_", MatchGroup(f))

MinIdLen == 3
\* The test of the id left out.
ValidIdAny(docId) == TRUE

\* /^[A-Za-z0-9_]{3,}$/.test(docId)
ValidId(docId) ==
  /\ Len(docId) >= MinIdLen
  /\ \A i \in 1..Len(docId) : docId[i] \in WordChar

\* `# ${docId}\n`
TemplateBody(docId) == <<"#", " ">> \o docId \o <<"\n">>


\* UTF-8 code points of the characters of file names (S3 lists keys in this order).
CodePoint(c) ==
  CASE c = "-" -> 45 [] c = "." -> 46 [] c = "1" -> 49 [] c = "2" -> 50
    [] c = "B" -> 66 [] c = "H" -> 72 [] c = "P" -> 80 [] c = "T" -> 84
    [] c = "_" -> 95 [] c = "a" -> 97 [] c = "b" -> 98 [] c = "c" -> 99
    [] c = "d" -> 100 [] c = "e" -> 101 [] c = "i" -> 105 [] c = "j" -> 106
    [] c = "m" -> 109 [] c = "n" -> 110 [] c = "o" -> 111 [] c = "s" -> 115
    [] c = "x" -> 120 [] OTHER -> 0

RECURSIVE KeyLess(_, _)
KeyLess(s, t) ==
  IF t = <<>> THEN FALSE
  ELSE IF s = <<>> THEN TRUE
  ELSE IF Head(s) = Head(t) THEN KeyLess(Tail(s), Tail(t))
  ELSE CodePoint(Head(s)) < CodePoint(Head(t))

RECURSIVE KeyOrder(_)
\* The keys of S as the object store lists them.
KeyOrder(S) ==
  IF S = {} THEN <<>>
  ELSE LET m == CHOOSE x \in S : \A y \in S \ {x} : KeyLess(x, y)
       IN <<m>> \o KeyOrder(S \ {m})

----------------------------------------------------------------------------
(* Maps (a JavaScript Map, a parsed JSON object, the file store). *)

EmptyMap == [x \in {} |-> 0]
MapSet(m, k, v) == (k :> v) @@ m
MapDel(m, k) == [x \in DOMAIN m \ {k} |-> m[x]]
Has(m, k) == k \in DOMAIN m

----------------------------------------------------------------------------
(* The domain's configuration and StorageFactory.create(null, domain). *)

\* A configuration: whether config.read succeeds, and which of the keys it
\* holds (a missing storj section is one with none of its four keys).
DomainConfigs ==
  [ readable : BOOLEAN, agent_contract_address : BOOLEAN, ACCESS_KEY : BOOLEAN,
    SECRET_KEY : BOOLEAN, ENDPOINT : BOOLEAN, BUCKET : BOOLEAN ]

FullConfig ==
  [ readable |-> TRUE, agent_contract_address |-> TRUE, ACCESS_KEY |-> TRUE,
    SECRET_KEY |-> TRUE, ENDPOINT |-> TRUE, BUCKET |-> TRUE ]

\* One configuration for each thing create() can do: the object store, the
\* Config wrapper (no storj section), and a throw (no BUCKET).
CoreConfigs ==
  { FullConfig,
    [FullConfig EXCEPT !.ACCESS_KEY = FALSE, !.SECRET_KEY = FALSE,
                       !.ENDPOINT = FALSE, !.BUCKET = FALSE],
    [FullConfig EXCEPT !.BUCKET = FALSE] }

\* The type create() detects when called with no type.
DetectType(c) ==
  IF c.readable /\ c.ACCESS_KEY /\ c.SECRET_KEY /\ c.ENDPOINT THEN "storj"
  ELSE "config"

\* StorjStorage.initialize() succeeds.
Initializes(c) ==
  /\ c.readable /\ c.agent_contract_address
  /\ c.ACCESS_KEY /\ c.SECRET_KEY /\ c.ENDPOINT /\ c.BUCKET

\* StorageFactory.create(null, domain): the backend built, or "storj_broken"
\* where createStorj throws.
create(c) ==
  IF DetectType(c) = "storj"
    THEN (IF Initializes(c) THEN "storj" ELSE "storj_broken")
    ELSE "config"

\* What StorageFactory.create builds for the domain.
backend == create(config)

----------------------------------------------------------------------------
(* Callers and inputs. *)

Addresses == {"A", "B"}
NoClient == [present |-> FALSE, address |-> UNDEF]     \* req.episteryClient unset
Client(a) == [present |-> TRUE, address |-> a]
Clients == {NoClient, Client(UNDEF)} \cup {Client(a) : a \in Addresses}

DocIds == {Home, Doc_a_bc, Doc_ab, Doc_a_dash_b}

\* Bodies of PUT requests: title, body, _pid, visibility, listed, rootmenu, and the
\* query's _pid.  An absent visibility, listed or rootmenu is UNDEF.
RivalPayloads ==
  { [title |-> T1, body |-> B1, _pid |-> Absent, qpid |-> Absent,
     visibility |-> UNDEF, listed |-> UNDEF, rootmenu |-> UNDEF],
    [title |-> T2, body |-> B2, _pid |-> Absent, qpid |-> Home,
     visibility |-> "private", listed |-> UNDEF, rootmenu |-> UNDEF] }
Payloads ==
  RivalPayloads \cup {
    [title |-> Empty, body |-> Empty, _pid |-> Home, qpid |-> Absent,
     visibility |-> "public", listed |-> "false", rootmenu |-> "true"],
    [title |-> T1, body |-> B2, _pid |-> Absent, qpid |-> Absent,
     visibility |-> "draft", listed |-> UNDEF, rootmenu |-> UNDEF] }

\* Of GET requests: the _pid cookie and the query's _pid.
NoCookie == [cookie |-> Absent, qpid |-> Absent]
GetArgs == { NoCookie,
             [cookie |-> Home, qpid |-> Absent],
             [cookie |-> Home, qpid |-> Doc_a_bc] }
NoArg == [none |-> TRUE]

Request(op, client, docId, arg) ==
  [op |-> op, client |-> client, docId |-> docId, arg |-> arg]

Falsy(s) == s \in {UNDEF, ""}
FalsyText(t) == t \in {Absent, Empty}
\* a || b for texts
OrText(a, b) == IF FalsyText(a) THEN b ELSE a
\* a || b for strings
OrStr(a, b) == IF Falsy(a) THEN b ELSE a

----------------------------------------------------------------------------
(* Index entries. *)

\* createIndexMeta stamping _created itself instead of taking the document's.
createIndexMetaStamped(doc, now) ==
  [ title |-> OrText(doc.title, doc._id),
    _pid |-> OrText(doc._pid, Empty),
    visibility |-> OrStr(doc.visibility, "public"),
    listed |-> doc.listed # "false",
    rootmenu |-> (doc.rootmenu = "true"),
    owner |-> OrStr(doc.owner, OrStr(doc._createdBy, "unknown")),
    _createdBy |-> OrStr(doc._createdBy, "unknown"),
    _created |-> now,
    _modified |-> IF doc._modified # 0 THEN doc._modified
                  ELSE IF doc._created # 0 THEN doc._created ELSE now,
    _modifiedBy |-> OrStr(doc._modifiedBy, OrStr(doc._createdBy, "unknown")) ]

\* createIndexMeta(doc); a time of 0 is an absent one, and now is new Date().
createIndexMeta(doc, now) ==
  [ title |-> OrText(doc.title, doc._id),
    _pid |-> OrText(doc._pid, Empty),
    visibility |-> OrStr(doc.visibility, "public"),
    listed |-> doc.listed # "false",
    rootmenu |-> (doc.rootmenu = "true"),
    owner |-> OrStr(doc.owner, OrStr(doc._createdBy, "unknown")),
    _createdBy |-> OrStr(doc._createdBy, "unknown"),
    _created |-> IF doc._created # 0 THEN doc._created ELSE now,
    _modified |-> IF doc._modified # 0 THEN doc._modified
                  ELSE IF doc._created # 0 THEN doc._created ELSE now,
    _modifiedBy |-> OrStr(doc._modifiedBy, OrStr(doc._createdBy, "unknown")) ]

\* What rebuildIndex hands to createIndexMeta: the parsed content file plus _id.
ContentDoc(content, docId) ==
  [ _id |-> docId, title |-> content.title, body |-> content.body,
    _pid |-> content._pid, visibility |-> UNDEF, listed |-> UNDEF,
    rootmenu |-> UNDEF, owner |-> UNDEF, _createdBy |-> UNDEF, _created |-> 0,
    _modified |-> 0, _modifiedBy |-> UNDEF ]

\* { documents: Object.fromEntries(index), updated } as JSON.parse gives it back;
\* `updated` is never read.
IndexData(ix) == [documents |-> ix]

RECURSIVE RebuildFromAborting(_, _, _, _)
\* The loop of rebuildIndex giving up at the first file that cannot be read.
RebuildFromAborting(list, store, bad, now) ==
  IF list = <<>> THEN EmptyMap
  ELSE LET n == Len(list)
           f == list[n]
           rest == RebuildFromAborting(SubSeq(list, 1, n - 1), store, bad, now)
       IN IF IsDocFile(f) /\ \A i \in 1..n : list[i] \notin bad
          THEN MapSet(rest, RebuiltId(f),
                      createIndexMeta(ContentDoc(store[f], RebuiltId(f)), now))
          ELSE rest

RECURSIVE RebuildFrom(_, _, _, _)
\* The loop of rebuildIndex over the listed files: each readable doc_*.json sets
\* the entry of the id derived from its name; a later file overwrites.
RebuildFrom(list, store, bad, now) ==
  IF list = <<>> THEN EmptyMap
  ELSE LET n == Len(list)
           f == list[n]
           rest == RebuildFrom(SubSeq(list, 1, n - 1), store, bad, now)
       IN IF IsDocFile(f) /\ f \notin bad
          THEN MapSet(rest, RebuiltId(f),
                      createIndexMeta(ContentDoc(store[f], RebuiltId(f)), now))
          ELSE rest

\* storage.listFiles(): the Config wrapper lists nothing.
listFiles(kind, store) == IF kind = "storj" THEN KeyOrder(DOMAIN store) ELSE <<>>

----------------------------------------------------------------------------
(* Requests. *)

\* new Date(): time has passed since the last reading, or has not.
Now == {t \in {clock, clock + 1} : t <= 1 + MaxClock}

\* A storage call succeeds, or fails (StorageUnavailable, a file that does not parse).
Outcomes == IF faults < MaxFaults THEN BOOLEAN ELSE {TRUE}
Failed(ok) == IF ok THEN 0 ELSE 1
Unreadable(docs) == {bad \in SUBSET docs : faults + Cardinality(bad) <= MaxFaults}

NoReq == [op |-> "none"]
NoResp == [status |-> 0]
NoPerms == [admin |-> FALSE, edit |-> FALSE, read |-> FALSE]
NoLoc == [ws |-> 0, perms |-> NoPerms, doc |-> [none |-> TRUE],
          meta |-> [none |-> TRUE], snap |-> EmptyMap, rivals |-> {},
          fresh |-> FALSE, afterLoss |-> FALSE]

InFlight == {p \in Procs : pc[p] \notin {"idle", "done"}}
NoneDone == \A p \in Procs : pc[p] # "done"

Respond(p, r) ==
  /\ pc' = [pc EXCEPT ![p] = "done"]
  /\ resp' = [resp EXCEPT ![p] = r]

Error500(msg) == [status |-> 500, error |-> msg]

UnchangedHistory == UNCHANGED <<built, rbWrites, lastPut, lastDel, written, lost, faults>>
UnchangedConfig == UNCHANGED <<config, epistery, scope>>

Init0 ==
  /\ config \in CoreConfigs
  /\ epistery \in {[attached |-> FALSE, admins |-> {}]}
                  \cup [attached : {TRUE}, admins : {{}, {"A"}, {"A", "B"}}]
  /\ files = EmptyMap
  /\ cached = 0
  /\ index = [o \in Procs |-> EmptyMap]
  /\ clock = 1
  /\ pc = [p \in Procs |-> "idle"]
  /\ req = [p \in Procs |-> NoReq]
  /\ loc = [p \in Procs |-> NoLoc]
  /\ resp = [p \in Procs |-> NoResp]
  /\ built = 0
  /\ rbWrites = 0
  /\ lastPut = NoReq
  /\ lastDel = {}
  /\ written = {}
  /\ lost = FALSE
  /\ faults = 0

\* Requests in flight together, two callers writing one document.
Init ==
  /\ Init0
  /\ budget = MaxOps
  /\ scope = [width |-> NumProcs, clients |-> {Client(a) : a \in Addresses},
              docIds |-> {Home}, payloads |-> RivalPayloads,
              getArgs |-> {NoCookie}]

\* One request at a time, every kind of caller, document id and input.
SeqInit ==
  /\ Init0
  /\ budget = MaxSeqOps
  /\ scope = [width |-> 1, clients |-> Clients, docIds |-> DocIds,
              payloads |-> Payloads, getArgs |-> GetArgs]

\* The ids of the documents that earlier runs of the process wrote.
StoredIds == {Home, Doc_a_bc}

\* What saveDocument left in the content file of such a document.
StoredContent == [title |-> T1, body |-> B1, _pid |-> Empty]

\* The stores a process can start on after runs that wrote content files and
\* stopped before index.json was written: content files, and no index.json.
LeftStores ==
  { [f \in {DocFile(d) : d \in S} |-> StoredContent] : S \in SUBSET StoredIds }

\* A process starting on such a store; one request at a time, by the callers
\* with an address, for the id of a stored document and for the id the rebuild
\* derives from the file name of the other.
RebuildInit ==
  /\ config \in CoreConfigs
  /\ epistery \in {[attached |-> FALSE, admins |-> {}]}
                  \cup [attached : {TRUE}, admins : {{}, {"A"}, {"A", "B"}}]
  /\ files \in LeftStores
  /\ cached = 0
  /\ index = [o \in Procs |-> EmptyMap]
  /\ clock = 1
  /\ pc = [p \in Procs |-> "idle"]
  /\ req = [p \in Procs |-> NoReq]
  /\ loc = [p \in Procs |-> NoLoc]
  /\ resp = [p \in Procs |-> NoResp]
  /\ built = 0
  /\ rbWrites = 0
  /\ lastPut = NoReq
  /\ lastDel = {}
  /\ written = {}
  /\ lost = FALSE
  /\ faults = 0
  /\ budget = MaxSeqOps
  /\ scope = [width |-> 1, clients |-> {Client(a) : a \in Addresses},
              docIds |-> {Home, RebuiltId(DocFile(Doc_a_bc))},
              payloads |-> RivalPayloads, getArgs |-> {NoCookie}]

\* A fresh process on an empty store under every configuration of the domain;
\* one request at a time, by one caller, for one document.
CreateInit ==
  /\ config \in DomainConfigs
  /\ epistery \in {[attached |-> FALSE, admins |-> {}]}
                  \cup [attached : {TRUE}, admins : {{}, {"A"}, {"A", "B"}}]
  /\ files = EmptyMap
  /\ cached = 0
  /\ index = [o \in Procs |-> EmptyMap]
  /\ clock = 1
  /\ pc = [p \in Procs |-> "idle"]
  /\ req = [p \in Procs |-> NoReq]
  /\ loc = [p \in Procs |-> NoLoc]
  /\ resp = [p \in Procs |-> NoResp]
  /\ built = 0
  /\ rbWrites = 0
  /\ lastPut = NoReq
  /\ lastDel = {}
  /\ written = {}
  /\ lost = FALSE
  /\ faults = 0
  /\ budget = MaxSeqOps
  /\ scope = [width |-> 1, clients |-> {Client("A")}, docIds |-> {Home},
              payloads |-> {[title |-> T1, body |-> B1, _pid |-> Absent,
                             qpid |-> Absent, visibility |-> UNDEF,
                             listed |-> UNDEF, rootmenu |-> UNDEF]},
              getArgs |-> {NoCookie}]

\* The router's middleware (attach, line 101) up to getDomainState's test of
\* domainStates.has(domain).  The middleware does not read the request: its
\* method, caller and inputs are drawn where the handler first reads them.
StartRequest(p) ==
  /\ pc[p] = "idle" /\ NoneDone
  /\ Cardinality(InFlight) < scope.width
  /\ \A q \in Procs : q < p => pc[q] # "idle"
  /\ budget >= 1
  /\ budget' = budget - 1
  /\ IF cached # 0
       THEN /\ pc' = [pc EXCEPT ![p] = "handler"]
            /\ loc' = [loc EXCEPT ![p] = [NoLoc EXCEPT !.ws = cached,
                                                       !.afterLoss = lost]]
       ELSE /\ pc' = [pc EXCEPT ![p] = "ds_create"]
            /\ loc' = [loc EXCEPT ![p] = [NoLoc EXCEPT !.afterLoss = lost]]
  /\ UNCHANGED <<files, cached, index, clock, req, resp>>
  /\ UnchangedHistory /\ UnchangedConfig

\* getDomainState caching the state although StorageFactory.create threw.
DsCreateCaching(p) ==
  /\ pc[p] = "ds_create" /\ NoneDone
  /\ IF backend = "storj_broken"
       THEN /\ Respond(p, Error500("storage"))
            /\ cached' = p
            /\ UNCHANGED <<index, built>>
       ELSE /\ pc' = [pc EXCEPT ![p] = "ds_read"]
            /\ index' = [index EXCEPT ![p] = EmptyMap]
            /\ built' = built + 1
            /\ UNCHANGED <<resp, cached>>
  /\ UNCHANGED <<files, clock, req, loc, budget, rbWrites, lastPut,
                 lastDel, written, lost, faults>>
  /\ UnchangedConfig

\* await StorageFactory.create(null, domain); new Map(); storage.readFile issued.
DsCreate(p) ==
  /\ pc[p] = "ds_create" /\ NoneDone
  /\ IF backend = "storj_broken"
       THEN /\ Respond(p, Error500("storage"))
            /\ UNCHANGED <<index, built>>
       ELSE /\ pc' = [pc EXCEPT ![p] = "ds_read"]
            /\ index' = [index EXCEPT ![p] = EmptyMap]
            /\ built' = built + 1
            /\ UNCHANGED resp
  /\ UNCHANGED <<files, cached, clock, req, loc, budget, rbWrites, lastPut,
                 lastDel, written, lost, faults>>
  /\ UnchangedConfig

\* domainStates.set(domain, {storage, index}); return domainStates.get(domain)
SetState(p) ==
  /\ cached' = p
  /\ loc' = [loc EXCEPT ![p].ws = p]
  /\ pc' = [pc EXCEPT ![p] = "handler"]

\* The read of index.json completes: the index is populated, or rebuildIndex
\* starts with storage.listFiles().
DsLoad(p) ==
  /\ pc[p] = "ds_read" /\ NoneDone
  /\ \E ok \in (IF Has(files, IndexFile) THEN Outcomes ELSE {TRUE}) :
       /\ faults' = faults + Failed(ok)
       /\ IF ok /\ Has(files, IndexFile)
            THEN /\ index' = [index EXCEPT ![p] = files[IndexFile].documents]
                 /\ SetState(p)
            ELSE /\ pc' = [pc EXCEPT ![p] = "rb_list"]
                 /\ UNCHANGED <<index, cached, loc>>
  /\ UNCHANGED <<files, clock, req, resp, budget, built, rbWrites, lastPut, lastDel,
                 written, lost>>
  /\ UnchangedConfig

\* rebuildIndex: the listing and the reads of the doc_*.json files.  A listing
\* that fails ends the rebuild (outer catch); a file that cannot be read or
\* parsed is skipped.  With rebuilt > 0 the index is written.
RbScan(p) ==
  /\ pc[p] = "rb_list" /\ NoneDone
  /\ \E ok \in Outcomes :
       LET list == listFiles(backend, files)
           docs == {f \in DOMAIN files : IsDocFile(f)}
       IN IF ~ok
            THEN /\ SetState(p)
                 /\ faults' = faults + 1
                 /\ UNCHANGED <<index, rbWrites, clock>>
            ELSE \E bad \in Unreadable(docs), now \in Now :
                   LET ix == RebuildFrom(list, files, bad, now)
                       rebuilt == Cardinality({i \in 1..Len(list) :
                                     IsDocFile(list[i]) /\ list[i] \notin bad})
                   IN /\ index' = [index EXCEPT ![p] = ix]
                      /\ clock' = now
                      /\ faults' = faults + Cardinality(bad)
                      /\ IF rebuilt > 0
                           THEN /\ pc' = [pc EXCEPT ![p] = "rb_write"]
                                /\ loc' = [loc EXCEPT ![p].snap = ix]
                                /\ rbWrites' = rbWrites + 1
                                /\ UNCHANGED cached
                           ELSE SetState(p) /\ UNCHANGED rbWrites
  /\ UNCHANGED <<files, req, resp, budget, built, lastPut, lastDel, written, lost>>
  /\ UnchangedConfig

\* The rebuild's write of index.json acknowledged but not done.
RbWrittenNot(p) ==
  /\ pc[p] = "rb_write" /\ NoneDone
  /\ \E ok \in Outcomes : faults' = faults + Failed(ok)
  /\ SetState(p)
  /\ UNCHANGED <<files, lost, index, clock, req, resp, budget, built, rbWrites,
                 lastPut, lastDel, written>>
  /\ UnchangedConfig

\* The rebuild's write of index.json completes, or fails (outer catch).
RbWritten(p) ==
  /\ pc[p] = "rb_write" /\ NoneDone
  /\ \E ok \in Outcomes :
       /\ files' = IF ok THEN MapSet(files, IndexFile, IndexData(loc[p].snap))
                   ELSE files
       /\ lost' = (lost /\ ~ok)
       /\ faults' = faults + Failed(ok)
  /\ SetState(p)
  /\ UNCHANGED <<index, clock, req, resp, budget, built, rbWrites, lastPut, lastDel,
                 written>>
  /\ UnchangedConfig

----------------------------------------------------------------------------
(* The role oracle and getPermissions. *)

\* this.epistery.isListed(address, 'epistery::admin')
isListed(address) == address \in epistery.admins

\* The addresses the oracle lists in the editor class (wiki::writers): asked of
\* it, isListed(address, 'wiki::writers') is address \in Editors.
Editors == {"B"}

\* getPermissions granting edit to every resolved caller.
getPermissionsEditAll(client, oerr) ==
  IF ~client.present \/ ~epistery.attached \/ oerr
    THEN [admin |-> FALSE, edit |-> client.present, read |-> TRUE]
    ELSE [admin |-> isListed(client.address), edit |-> TRUE, read |-> TRUE]

\* getPermissions granting every resolved caller the admin role.
getPermissionsOpen(client, oerr) ==
  [admin |-> client.present, edit |-> client.present, read |-> TRUE]

\* getPermissions setting edit before the oracle's answer is known, so that an
\* oracle that throws leaves edit granted.
getPermissionsFailOpen(client, oerr) ==
  IF ~client.present \/ ~epistery.attached
    THEN [admin |-> FALSE, edit |-> FALSE, read |-> TRUE]
    ELSE IF oerr THEN [admin |-> FALSE, edit |-> TRUE, read |-> TRUE]
    ELSE [admin |-> isListed(client.address), edit |-> isListed(client.address),
          read |-> TRUE]

\* getPermissions(req); oerr: the oracle's call throws.
getPermissions(client, oerr) ==
  IF ~client.present \/ ~epistery.attached \/ oerr
    THEN [admin |-> FALSE, edit |-> FALSE, read |-> TRUE]
    ELSE [admin |-> isListed(client.address), edit |-> isListed(client.address),
          read |-> TRUE]

\* Whether the oracle is called at all by getPermissions.
OracleAsked(client) == client.present /\ epistery.attached
OracleOutcomes(client) == IF OracleAsked(client) THEN BOOLEAN ELSE {FALSE}

Denied(perms) == [status |-> 403, error |-> "Permission required", perms |-> perms]

----------------------------------------------------------------------------
(* GET /:docId *)

\* const options = { _pid: pidFromCookie, ...req.query }
GetOptions(arg) ==
  [_pid |-> IF arg.qpid # Absent THEN arg.qpid ELSE OrText(arg.cookie, Empty)]

\* get() raising when the content cannot be loaded.
NotFoundRaised(perms, cause) == [status |-> 500, error |-> "Document not found"]

\* The template without the caller's hint.
NewDocNoHint(docId, options) ==
  [ _id |-> docId, title |-> docId, body |-> TemplateBody(docId),
    _pid |-> Empty, visibility |-> "public", _new |-> TRUE ]

\* The template get() returns for an id the index does not hold.
NewDoc(docId, options) ==
  [ _id |-> docId, title |-> docId, body |-> TemplateBody(docId),
    _pid |-> OrText(options._pid, Empty), visibility |-> "public", _new |-> TRUE ]

\* { _id: docId, ...meta, ...content }
Merged(docId, meta, content) ==
  [ _id |-> docId, title |-> content.title, body |-> content.body,
    _pid |-> content._pid, visibility |-> meta.visibility, listed |-> meta.listed,
    rootmenu |-> meta.rootmenu, owner |-> meta.owner,
    _createdBy |-> meta._createdBy, _created |-> meta._created,
    _modified |-> meta._modified, _modifiedBy |-> meta._modifiedBy, _new |-> FALSE ]

\* The visibility test with the owner comparison inverted.
HiddenFromOwner(meta, client) ==
  meta.visibility # "public" /\ client.present /\ client.address = meta.owner

\* The visibility test applied to public entries too.
HiddenUnlessOwner(meta, client) ==
  client.present /\ client.address # meta.owner

\* The visibility test of get(): the entry is hidden from this caller.
Hidden(meta, client) ==
  meta.visibility # "public" /\ client.present /\ client.address # meta.owner

NotFound(perms, cause) ==
  [status |-> 404, error |-> "Document not found", perms |-> perms, cause |-> cause]

\* handleDocument, GET branch, and get() up to its await of loadDocument.
GetHandler(p) ==
  /\ pc[p] = "handler" /\ NoneDone
  /\ \E client \in scope.clients, docId \in scope.docIds, arg \in scope.getArgs :
     \E oerr \in OracleOutcomes(client) :
       LET r == Request("get", client, docId, arg)
           perms == getPermissions(r.client, oerr)
           ix == index[loc[p].ws]
       IN /\ req' = [req EXCEPT ![p] = r]
          /\ IF ~r.client.present
               THEN Respond(p, Error500("Authentication required")) /\ UNCHANGED loc
             ELSE IF ~Has(ix, r.docId)
               THEN /\ Respond(p, [status |-> 200, perms |-> perms,
                                   doc |-> NewDoc(r.docId, GetOptions(r.arg))])
                    /\ UNCHANGED loc
             ELSE IF Hidden(ix[r.docId], r.client)
               THEN Respond(p, NotFound(perms, "hidden")) /\ UNCHANGED loc
             ELSE /\ pc' = [pc EXCEPT ![p] = "get_load"]
                  /\ loc' = [loc EXCEPT ![p].meta = ix[r.docId],
                                        ![p].perms = perms]
                  /\ UNCHANGED resp
  /\ UNCHANGED <<files, cached, index, clock, budget>>
  /\ UnchangedHistory /\ UnchangedConfig

\* get() dropping the entry whose content cannot be loaded.
GetLoadedPruning(p) ==
  /\ pc[p] = "get_load" /\ NoneDone
  /\ LET f == DocFile(req[p].docId)
         ws == loc[p].ws
     IN \E ok \in (IF Has(files, f) THEN Outcomes ELSE {TRUE}) :
          /\ faults' = faults + Failed(ok)
          /\ IF ok /\ Has(files, f)
               THEN /\ Respond(p, [status |-> 200, perms |-> loc[p].perms,
                                   doc |-> Merged(req[p].docId, loc[p].meta, files[f])])
                    /\ UNCHANGED index
               ELSE /\ Respond(p, NotFound(loc[p].perms,
                                           IF ok THEN "missing" ELSE "load"))
                    /\ index' = [index EXCEPT ![ws] = MapDel(@, req[p].docId)]
  /\ UNCHANGED <<files, cached, clock, req, loc, budget, built, rbWrites,
                 lastPut, lastDel, written, lost>>
  /\ UnchangedConfig

\* loadDocument's read completes (or throws: get() returns null).
GetLoaded(p) ==
  /\ pc[p] = "get_load" /\ NoneDone
  /\ LET f == DocFile(req[p].docId)
     IN \E ok \in (IF Has(files, f) THEN Outcomes ELSE {TRUE}) :
          /\ faults' = faults + Failed(ok)
          /\ IF ok /\ Has(files, f)
               THEN Respond(p, [status |-> 200, perms |-> loc[p].perms,
                                doc |-> Merged(req[p].docId, loc[p].meta, files[f])])
               ELSE Respond(p, NotFound(loc[p].perms,
                                        IF ok THEN "missing" ELSE "load"))
  /\ UNCHANGED <<files, cached, index, clock, req, loc, budget, built, rbWrites,
                 lastPut, lastDel, written, lost>>
  /\ UnchangedConfig

----------------------------------------------------------------------------
(* GET /index *)

\* The collation rank of a character under localeCompare: punctuation, then
\* digits, then letters in alphabetical order whatever their case.
LocaleRank(c) ==
  CASE c = "_" -> 1 [] c = "-" -> 2 [] c = "." -> 3 [] c = "1" -> 4 [] c = "2" -> 5
    [] c = "a" -> 10 [] c = "b" -> 11 [] c = "B" -> 11 [] c = "c" -> 12
    [] c = "d" -> 13 [] c = "e" -> 14 [] c = "H" -> 17 [] c = "i" -> 18
    [] c = "j" -> 19 [] c = "m" -> 22 [] c = "n" -> 23 [] c = "o" -> 24
    [] c = "P" -> 25 [] c = "s" -> 28 [] c = "T" -> 29 [] c = "x" -> 33
    [] OTHER -> 0

RECURSIVE LocaleLess(_, _)
\* a.localeCompare(b) < 0
LocaleLess(s, t) ==
  IF t = <<>> THEN FALSE
  ELSE IF s = <<>> THEN TRUE
  ELSE IF LocaleRank(Head(s)) = LocaleRank(Head(t))
    THEN LocaleLess(Tail(s), Tail(t))
  ELSE LocaleRank(Head(s)) < LocaleRank(Head(t))

RECURSIVE SortIds(_)
SortIds(S) ==
  IF S = {} THEN <<>>
  ELSE LET m == CHOOSE x \in S : \A y \in S \ {x} : LocaleLess(x, y)
       IN <<m>> \o SortIds(S \ {m})

ListEntry(docId, meta) ==
  [ _id |-> docId, title |-> meta.title, _pid |-> meta._pid, listed |-> meta.listed,
    rootmenu |-> meta.rootmenu, visibility |-> meta.visibility,
    _modified |-> meta._modified ]

\* getIndex without the visibility filter: every entry is listed.
getIndexAll(client, ix) ==
  LET ids == SortIds(DOMAIN ix)
  IN [i \in 1..Len(ids) |-> ListEntry(ids[i], ix[ids[i]])]

\* getIndex(episteryClient, wikiState) for a present client.
getIndex(client, ix) ==
  LET shown == {d \in DOMAIN ix :
                  ix[d].visibility = "public" \/ client.address = ix[d].owner}
      ids == SortIds(shown)
  IN [i \in 1..Len(ids) |-> ListEntry(ids[i], ix[ids[i]])]

\* router.get('/index')
IndexHandler(p) ==
  /\ pc[p] = "handler" /\ NoneDone
  /\ \E client \in scope.clients :
       /\ req' = [req EXCEPT ![p] = Request("index", client, Home, NoArg)]
       /\ IF ~client.present
            THEN Respond(p, Error500("Authentication required"))
            ELSE Respond(p, [status |-> 200,
                             list |-> getIndex(client, index[loc[p].ws])])
  /\ UNCHANGED <<files, cached, index, clock, loc, budget>>
  /\ UnchangedHistory /\ UnchangedConfig

----------------------------------------------------------------------------
(* PUT or POST /:docId *)

\* put() taking the caller and the time of the call also for an existing entry.
PutDocFresh(client, docId, body, ix, now) ==
  [ _id |-> docId,
    title |-> OrText(body.title, docId),
    body |-> OrText(body.body, Empty),
    _pid |-> OrText(body._pid, OrText(body.qpid, Empty)),
    visibility |-> OrStr(body.visibility, "public"),
    listed |-> IF body.listed = "false" THEN "false" ELSE "true",
    rootmenu |-> OrStr(body.rootmenu, "false"),
    owner |-> client.address,
    _createdBy |-> client.address,
    _created |-> now,
    _modified |-> now,
    _modifiedBy |-> client.address ]

\* The document put() prepares; ix is wikiState.index, now is new Date().
PutDoc(client, docId, body, ix, now) ==
  LET existing == Has(ix, docId)
  IN [ _id |-> docId,
       title |-> OrText(body.title, docId),
       body |-> OrText(body.body, Empty),
       _pid |-> OrText(body._pid, OrText(body.qpid, Empty)),
       visibility |-> OrStr(body.visibility, "public"),
       listed |-> IF body.listed = "false" THEN "false" ELSE "true",
       rootmenu |-> OrStr(body.rootmenu, "false"),
       owner |-> IF existing THEN OrStr(ix[docId].owner, client.address)
                 ELSE client.address,
       _createdBy |-> IF existing THEN OrStr(ix[docId]._createdBy, client.address)
                      ELSE client.address,
       _created |-> IF existing /\ ix[docId]._created # 0 THEN ix[docId]._created
                    ELSE now,
       _modified |-> now,
       _modifiedBy |-> client.address ]

\* saveDocument forgetting the body.
DocContentNoBody(doc) == [title |-> doc.title, body |-> Empty, _pid |-> doc._pid]

\* What saveDocument writes.
DocContent(doc) == [title |-> doc.title, body |-> doc.body, _pid |-> doc._pid]

\* Other Puts of the same id that are under way.
PutsUnderWay(p, docId) ==
  {q \in Procs \ {p} : pc[q] \in {"put_wc", "put_cont", "put_wi"}
                       /\ req[q].docId = docId}

\* handleDocument, PUT branch, and put() up to saveDocument's write.  The Config
\* wrapper writes at the call; the object store while the request awaits.
PutHandler(p) ==
  /\ pc[p] = "handler" /\ NoneDone
  /\ budget >= 1
  /\ budget' = budget - 1
  /\ \E client \in scope.clients, docId \in scope.docIds, arg \in scope.payloads :
     \E oerr \in OracleOutcomes(client), now \in Now :
       LET r == Request("put", client, docId, arg)
           perms == getPermissions(r.client, oerr)
           ix == index[loc[p].ws]
           doc == PutDoc(r.client, r.docId, r.arg, ix, now)
           f == DocFile(r.docId)
           others == PutsUnderWay(p, r.docId)
           mine == [loc[p] EXCEPT !.doc = doc, !.perms = perms,
                      !.fresh = (files = EmptyMap /\ ix = EmptyMap),
                      !.rivals = {req[q].client.address : q \in others}]
           locs == [q \in Procs |->
                      IF q = p THEN mine
                      ELSE IF q \in others
                        THEN [loc[q] EXCEPT !.rivals = @ \cup {r.client.address}]
                      ELSE loc[q]]
       IN /\ req' = [req EXCEPT ![p] = r]
          /\ IF ~perms.edit
               THEN /\ Respond(p, Denied(perms))
                    /\ UNCHANGED <<files, loc, lastDel, faults, clock>>
             ELSE IF ~ValidId(r.docId)
               THEN /\ Respond(p, [status |-> 405, error |-> "Invalid document ID"])
                    /\ UNCHANGED <<files, loc, lastDel, faults, clock>>
             ELSE IF backend = "storj"
               THEN /\ pc' = [pc EXCEPT ![p] = "put_wc"]
                    /\ loc' = locs
                    /\ clock' = now
                    /\ lastDel' = lastDel \ {r.docId}
                    /\ UNCHANGED <<files, resp, faults>>
             ELSE \E ok \in Outcomes :
                    /\ faults' = faults + Failed(ok)
                    /\ clock' = now
                    /\ IF ok
                         THEN /\ files' = MapSet(files, f, DocContent(doc))
                              /\ pc' = [pc EXCEPT ![p] = "put_cont"]
                              /\ loc' = locs
                              /\ lastDel' = lastDel \ {r.docId}
                              /\ UNCHANGED resp
                         ELSE /\ Respond(p, Error500("storage"))
                              /\ UNCHANGED <<files, loc, lastDel>>
  /\ UNCHANGED <<cached, index, built, rbWrites, lastPut, written, lost>>
  /\ UnchangedConfig

\* The content file write of a Put on object storage, acknowledged but not done.
PutContentDropped(p) ==
  /\ pc[p] = "put_wc" /\ NoneDone
  /\ \E ok \in Outcomes :
       /\ faults' = faults + Failed(ok)
       /\ IF ok
            THEN /\ pc' = [pc EXCEPT ![p] = "put_cont"]
                 /\ UNCHANGED <<files, resp>>
            ELSE Respond(p, Error500("storage")) /\ UNCHANGED files
  /\ UNCHANGED <<cached, index, clock, req, loc, budget, built, rbWrites, lastPut,
                 lastDel, written, lost>>
  /\ UnchangedConfig

\* put() setting the entry before the content write is known to have succeeded.
PutContentLandedEntryFirst(p) ==
  /\ pc[p] = "put_wc" /\ NoneDone
  /\ \E ok \in Outcomes :
       /\ faults' = faults + Failed(ok)
       /\ index' = [index EXCEPT ![loc[p].ws] =
                      MapSet(@, req[p].docId, createIndexMeta(loc[p].doc, clock))]
       /\ IF ok
            THEN /\ files' = MapSet(files, DocFile(req[p].docId),
                                    DocContent(loc[p].doc))
                 /\ pc' = [pc EXCEPT ![p] = "put_cont"]
                 /\ UNCHANGED resp
            ELSE Respond(p, Error500("storage")) /\ UNCHANGED files
  /\ UNCHANGED <<cached, clock, req, loc, budget, built, rbWrites, lastPut,
                 lastDel, written, lost>>
  /\ UnchangedConfig

\* The object store's write of the content file completes, or throws.
PutContentLanded(p) ==
  /\ pc[p] = "put_wc" /\ NoneDone
  /\ \E ok \in Outcomes :
       /\ faults' = faults + Failed(ok)
       /\ IF ok
            THEN /\ files' = MapSet(files, DocFile(req[p].docId),
                                    DocContent(loc[p].doc))
                 /\ pc' = [pc EXCEPT ![p] = "put_cont"]
                 /\ UNCHANGED resp
            ELSE Respond(p, Error500("storage")) /\ UNCHANGED files
  /\ UNCHANGED <<cached, index, clock, req, loc, budget, built, rbWrites, lastPut,
                 lastDel, written, lost>>
  /\ UnchangedConfig

\* put() returns doc: the history of the Put that has returned.
PutReturns(p) ==
  /\ Respond(p, [status |-> 200, perms |-> loc[p].perms, doc |-> loc[p].doc])
  /\ lastPut' = [op |-> "put", by |-> req[p].client.address,
                 docId |-> req[p].docId, title |-> req[p].arg.title,
                 body |-> req[p].arg.body, visibility |-> req[p].arg.visibility,
                 rivals |-> loc[p].rivals, fresh |-> loc[p].fresh]
  /\ written' = written \cup {req[p].docId}

\* put() after saveDocument: the entry is set and saveIndex writes the index.
PutContinue(p) ==
  /\ pc[p] = "put_cont" /\ NoneDone
  /\ LET ws == loc[p].ws
         meta == createIndexMeta(loc[p].doc, clock)
         ix == MapSet(index[ws], req[p].docId, meta)
     IN /\ index' = [index EXCEPT ![ws] = ix]
        /\ lastDel' = lastDel \ {req[p].docId}
        /\ IF backend = "storj"
             THEN /\ pc' = [pc EXCEPT ![p] = "put_wi"]
                  /\ loc' = [loc EXCEPT ![p].snap = ix]
                  /\ UNCHANGED <<files, resp, lastPut, written, lost, faults>>
             ELSE \E ok \in Outcomes :
                    /\ files' = IF ok THEN MapSet(files, IndexFile, IndexData(ix))
                                ELSE files
                    /\ lost' = (lost /\ ~ok)
                    /\ faults' = faults + Failed(ok)
                    /\ PutReturns(p)
                    /\ UNCHANGED loc
  /\ UNCHANGED <<cached, clock, req, budget, built, rbWrites>>
  /\ UnchangedConfig

\* The object store's write of index.json completes, or throws (saveIndex logs it).
PutIndexLanded(p) ==
  /\ pc[p] = "put_wi" /\ NoneDone
  /\ \E ok \in Outcomes :
       /\ files' = IF ok THEN MapSet(files, IndexFile, IndexData(loc[p].snap))
                   ELSE files
       /\ lost' = (lost /\ ~ok)
       /\ faults' = faults + Failed(ok)
  /\ PutReturns(p)
  /\ UNCHANGED <<cached, index, clock, req, loc, budget, built, rbWrites, lastDel>>
  /\ UnchangedConfig

----------------------------------------------------------------------------
(* DELETE /:docId *)

\* handleDocument, DELETE branch, and delete() up to its await of isListed.
\* docId is a string, so docId._createdBy is undefined.
DeleteHandler(p) ==
  /\ pc[p] = "handler" /\ NoneDone
  /\ \E client \in scope.clients, docId \in scope.docIds :
     \E oerr \in OracleOutcomes(client) :
       LET r == Request("delete", client, docId, NoArg)
           perms == getPermissions(r.client, oerr)
       IN /\ req' = [req EXCEPT ![p] = r]
          /\ IF ~perms.admin /\ ~r.client.present
               THEN Respond(p, Error500("TypeError")) /\ UNCHANGED loc
             ELSE IF ~perms.admin /\ r.client.address # UNDEF
               THEN Respond(p, Denied(perms)) /\ UNCHANGED loc
             ELSE IF ~Has(index[loc[p].ws], r.docId)
               THEN Respond(p, Error500("Document not found")) /\ UNCHANGED loc
             ELSE /\ pc' = [pc EXCEPT ![p] = "del_auth"]
                  /\ loc' = [loc EXCEPT ![p].perms = perms]
                  /\ UNCHANGED resp
  /\ UNCHANGED <<files, cached, index, clock, budget>>
  /\ UnchangedHistory /\ UnchangedConfig

\* delete() returns { success: true, docId }.
DeleteReturns(p) ==
  /\ Respond(p, [status |-> 200, success |-> TRUE, docId |-> req[p].docId])
  /\ lastDel' = lastDel \cup {req[p].docId}
  /\ written' = written \ {req[p].docId}
  /\ lastPut' = NoReq

\* delete() after its own isListed: the entry is removed, saveIndex writes.
DeleteAuth(p) ==
  /\ pc[p] = "del_auth" /\ NoneDone
  /\ \E oerr \in OracleOutcomes(req[p].client) :
       LET ws == loc[p].ws
           isAdmin == epistery.attached /\ isListed(req[p].client.address)
           ix == MapDel(index[ws], req[p].docId)
       IN IF oerr
            THEN /\ Respond(p, Error500("oracle"))
                 /\ UNCHANGED <<files, index, loc, lastPut, lastDel, written, lost,
                                faults>>
          ELSE IF ~isAdmin
            THEN /\ Respond(p, Error500("Only epistery::admin can delete documents"))
                 /\ UNCHANGED <<files, index, loc, lastPut, lastDel, written, lost,
                                faults>>
          ELSE /\ index' = [index EXCEPT ![ws] = ix]
               /\ IF backend = "storj"
                    THEN /\ pc' = [pc EXCEPT ![p] = "del_wi"]
                         /\ loc' = [loc EXCEPT ![p].snap = ix]
                         /\ UNCHANGED <<files, resp, lastPut, lastDel, written, lost,
                                        faults>>
                    ELSE \E ok \in Outcomes :
                           /\ files' = IF ok
                                         THEN MapSet(files, IndexFile, IndexData(ix))
                                         ELSE files
                           /\ lost' = (lost /\ ~ok)
                           /\ faults' = faults + Failed(ok)
                           /\ DeleteReturns(p)
                           /\ UNCHANGED loc
  /\ UNCHANGED <<cached, clock, req, budget, built, rbWrites>>
  /\ UnchangedConfig

\* The object store's write of index.json completes, or throws (saveIndex logs it).
DeleteIndexLanded(p) ==
  /\ pc[p] = "del_wi" /\ NoneDone
  /\ \E ok \in Outcomes :
       /\ files' = IF ok THEN MapSet(files, IndexFile, IndexData(loc[p].snap))
                   ELSE files
       /\ lost' = (lost /\ ~ok)
       /\ faults' = faults + Failed(ok)
  /\ DeleteReturns(p)
  /\ UNCHANGED <<cached, index, clock, req, loc, budget, built, rbWrites>>
  /\ UnchangedConfig

----------------------------------------------------------------------------
(* The client and the environment. *)

\* The response has been received; the slot is free again.
Ack(p) ==
  /\ pc[p] = "done"
  /\ pc' = [pc EXCEPT ![p] = "idle"]
  /\ req' = [req EXCEPT ![p] = NoReq]
  /\ loc' = [loc EXCEPT ![p] = NoLoc]
  /\ resp' = [resp EXCEPT ![p] = NoResp]
  /\ UNCHANGED <<files, cached, index, clock, budget>>
  /\ UnchangedHistory /\ UnchangedConfig

\* The process stops (or crashes) and starts again: the constructor's state.
Restart ==
  /\ NoneDone /\ budget > 0
  /\ budget' = budget - 1
  /\ cached' = 0
  /\ index' = [o \in Procs |-> EmptyMap]
  /\ pc' = [p \in Procs |-> "idle"]
  /\ req' = [p \in Procs |-> NoReq]
  /\ loc' = [p \in Procs |-> NoLoc]
  /\ resp' = [p \in Procs |-> NoResp]
  /\ built' = 0
  /\ rbWrites' = 0
  /\ lastPut' = NoReq
  /\ UNCHANGED <<files, clock, lastDel, written, lost, faults>>
  /\ UnchangedConfig

\* index.json is deleted out-of-band.
LoseIndex ==
  /\ NoneDone /\ budget > 0
  /\ Has(files, IndexFile)
  /\ budget' = budget - 1
  /\ files' = MapDel(files, IndexFile)
  /\ lost' = TRUE
  /\ UNCHANGED <<cached, index, clock, pc, req, loc, resp, built, rbWrites, lastPut,
                 lastDel, written, faults>>
  /\ UnchangedConfig

Next ==
  \/ \E p \in Procs : StartRequest(p)
  \/ \E p \in Procs : DsCreate(p)
  \/ \E p \in Procs : DsLoad(p)
  \/ \E p \in Procs : RbScan(p)
  \/ \E p \in Procs : RbWritten(p)
  \/ \E p \in Procs : GetHandler(p)
  \/ \E p \in Procs : GetLoaded(p)
  \/ \E p \in Procs : IndexHandler(p)
  \/ \E p \in Procs : PutHandler(p)
  \/ \E p \in Procs : PutContentLanded(p)
  \/ \E p \in Procs : PutContinue(p)
  \/ \E p \in Procs : PutIndexLanded(p)
  \/ \E p \in Procs : DeleteHandler(p)
  \/ \E p \in Procs : DeleteAuth(p)
  \/ \E p \in Procs : DeleteIndexLanded(p)
  \/ \E p \in Procs : Ack(p)
  \/ Restart
  \/ LoseIndex

Spec == Init /\ [][Next]_vars
SeqSpec == SeqInit /\ [][Next]_vars
RebuildSpec == RebuildInit /\ [][Next]_vars
CreateSpec == CreateInit /\ [][Next]_vars

----------------------------------------------------------------------------
(* Properties.  Done(p, op): request p, of kind op, has just been answered. *)

Done(p, op) == pc[p] = "done" /\ req[p].op = op
Resolved(client) == client.present
\* get() returned null because loadDocument's read failed.
ReadFailed(p) == resp[p].status = 404 /\ resp[p].cause = "load"
\* The entry the request's state object holds for the request's id.
EntryOf(p) == index[loc[p].ws][req[p].docId]
HasEntry(p) == loc[p].ws # 0 /\ Has(index[loc[p].ws], req[p].docId)

\* A Get by the caller of the last Put that returned 200, for its id, with no
\* mutation, restart or failed read in between.
GetAfterPut(p) ==
  /\ Done(p, "get")
  /\ lastPut.op = "put"
  /\ req[p].docId = lastPut.docId
  /\ req[p].client = Client(lastPut.by)
  /\ ~ReadFailed(p)

\* C1 as stated: a Put that returned successfully, followed by a Get of the same
\* id by the same identity with no mutation in between, returns a document whose
\* body and (supplied) title are the written ones, never null, never the template.
C1_PutThenGetReturnsWritten ==
  \A p \in Procs :
    GetAfterPut(p) /\ lastPut.title # Empty =>
      /\ resp[p].status = 200
      /\ ~resp[p].doc._new
      /\ resp[p].doc.body = lastPut.body
      /\ resp[p].doc.title = lastPut.title

\* C1 amended: such a Get returns the written body and title (the id where the
\* written title is empty) exactly when the resulting entry is public or owned by
\* the caller; otherwise it returns null.  It never returns the template.
C1_PutThenGetUnlessHidden ==
  \A p \in Procs :
    GetAfterPut(p) =>
      /\ HasEntry(p)
      /\ IF EntryOf(p).visibility = "public" \/ EntryOf(p).owner = lastPut.by
           THEN /\ resp[p].status = 200
                /\ ~resp[p].doc._new
                /\ resp[p].doc.body = lastPut.body
                /\ resp[p].doc.title =
                     (IF lastPut.title = Empty THEN lastPut.docId ELSE lastPut.title)
           ELSE resp[p].status = 404

\* A Get after a Put by an editor who does not own the document returns it.
C1_Witness ==
  \E p \in Procs :
    /\ GetAfterPut(p)
    /\ resp[p].status = 200
    /\ resp[p].doc.owner # lastPut.by
    /\ resp[p].doc.body = lastPut.body

\* The state after the scenario's Put: the domain was empty, Home was Put with a
\* title and no visibility, the Put returned 200 and nothing was changed since.
AfterFirstPutOfHome ==
  /\ lastPut.op = "put"
  /\ lastPut.fresh
  /\ lastPut.docId = Home
  /\ lastPut.visibility = UNDEF
  /\ lastPut.title # Empty

\* C2: from an empty domain, after Put("Home", {title, body}) by A with no
\* visibility, Get("Home") by a resolved caller returns _id "Home", the written
\* title and body, owner A and visibility "public" (unless the read of the
\* content fails), and the index listing holds exactly one entry, of _id "Home".
C2_FirstPutOfHome ==
  \A p \in Procs :
    AfterFirstPutOfHome =>
      /\ /\ Done(p, "get") /\ Resolved(req[p].client)
         /\ req[p].docId = Home /\ ~ReadFailed(p)
         => /\ resp[p].status = 200
            /\ resp[p].doc._id = Home
            /\ resp[p].doc.title = lastPut.title
            /\ resp[p].doc.body = lastPut.body
            /\ resp[p].doc.owner = lastPut.by
            /\ resp[p].doc.visibility = "public"
      /\ Done(p, "index") /\ Resolved(req[p].client)
         => /\ resp[p].status = 200
            /\ Len(resp[p].list) = 1
            /\ resp[p].list[1]._id = Home

\* The scenario's Get, by another caller than the one who Put.
C2_Witness ==
  \E p \in Procs :
    /\ AfterFirstPutOfHome
    /\ Done(p, "get") /\ req[p].docId = Home
    /\ Resolved(req[p].client) /\ req[p].client.address # lastPut.by
    /\ resp[p].status = 200 /\ resp[p].doc.owner = lastPut.by

\* The hint a GET carries: the query's _pid, else the cookie's, else none.
HintOf(arg) ==
  IF arg.qpid # Absent THEN arg.qpid
  ELSE IF arg.cookie # Absent THEN arg.cookie ELSE Empty

\* C3: a Get of an id the index has no entry for returns, to every resolved
\* caller and for every id, the template: _new true, the body "# <docId>\n" and
\* _pid the caller's hint (empty when there is none).
C3_GetOfUnknownIdReturnsTemplate ==
  \A p \in Procs :
    Done(p, "get") /\ Resolved(req[p].client) /\ ~HasEntry(p) =>
      /\ resp[p].status = 200
      /\ resp[p].doc._new
      /\ resp[p].doc._id = req[p].docId
      /\ resp[p].doc.body = <<"#", " ">> \o req[p].docId \o <<"\n">>
      /\ resp[p].doc._pid = HintOf(req[p].arg)

\* A template answered with the hint of the query.
C3_Witness ==
  \E p \in Procs :
    /\ Done(p, "get") /\ ~HasEntry(p)
    /\ resp[p].status = 200 /\ resp[p].doc._new
    /\ resp[p].doc._pid = Doc_a_bc

\* C4: a Get of a document whose entry is private, by a resolved caller who is
\* not the entry's owner, returns null (the 404 of absence): no error, and no
\* content or metadata of the document.
C4_PrivateHiddenFromOthers ==
  \A p \in Procs :
    /\ Done(p, "get") /\ Resolved(req[p].client) /\ HasEntry(p)
    /\ EntryOf(p).visibility = "private"
    /\ req[p].client.address # EntryOf(p).owner
    => /\ resp[p].status = 404
       /\ DOMAIN resp[p] = {"status", "error", "perms", "cause"}

\* A private document asked for by an administrator who does not own it.
C4_Witness ==
  \E p \in Procs :
    /\ Done(p, "get") /\ HasEntry(p)
    /\ EntryOf(p).visibility = "private"
    /\ req[p].client.address \in epistery.admins
    /\ req[p].client.address # EntryOf(p).owner
    /\ resp[p].status = 404

\* C5 as stated: a public document whose content file exists is returned by Get
\* to any caller, also when no identity is resolved.
C5_PublicReadableByAnyone ==
  \A p \in Procs :
    /\ Done(p, "get") /\ HasEntry(p)
    /\ EntryOf(p).visibility = "public"
    /\ Has(files, DocFile(req[p].docId))
    /\ ~ReadFailed(p)
    => /\ resp[p].status = 200
       /\ resp[p].doc._id = req[p].docId

\* The handler's step of a DELETE by a resolved caller the oracle does not list.
DeleteByNonAdmin(p) ==
  /\ pc[p] = "handler" /\ pc'[p] # "handler"
  /\ req'[p].op = "delete"
  /\ req'[p].client.address \in Addresses \ epistery.admins

C7_DeletedIsAbsent ==
  \A d \in lastDel :
    /\ cached # 0 => ~Has(index[cached], d)
    /\ Has(files, IndexFile) => ~Has(files[IndexFile].documents, d)

AllQuiet == \A p \in Procs : pc[p] \in {"idle", "done"}

\* C8 as stated: when two Puts of one id by two identities have run together
\* and both returned (object storage, no storage call failed, one state object),
\* the entry's _modifiedBy is the caller of the Put whose write of index.json
\* came last, and the content file and index.json are those of that Put.
C8_LastIndexWriteWins ==
  /\ AllQuiet /\ lastPut.op = "put" /\ lastPut.rivals \ {lastPut.by} # {}
  /\ backend = "storj" /\ faults = 0 /\ built <= 1 /\ cached # 0
  => LET d == lastPut.docId
     IN /\ Has(index[cached], d)
        /\ index[cached][d]._modifiedBy = lastPut.by
        /\ Has(files, DocFile(d))
        /\ files[DocFile(d)].body = lastPut.body
        /\ index[cached][d].title = files[DocFile(d)].title
        /\ Has(files, IndexFile)
        /\ Has(files[IndexFile].documents, d)
        /\ files[IndexFile].documents[d] = index[cached][d]

\* C9 as stated: however many first requests run together (object storage),
\* one storage backend and one Index are constructed, at most one rebuild writes
\* index.json, and every request is handed the same state object.
C9_SingleFlight ==
  backend = "storj" =>
    /\ built <= 1
    /\ rbWrites <= 1
    /\ \A p, q \in Procs : loc[p].ws # 0 /\ loc[q].ws # 0 => loc[p].ws = loc[q].ws

\* C10 as stated: after index.json was deleted out-of-band, a Get (no storage
\* call failing) is served from an index that holds an entry for every document
\* written before, under its original id.
C10_RebuildRestoresWritten ==
  \A p \in Procs :
    Done(p, "get") /\ loc[p].afterLoss /\ faults = 0 /\ resp[p].status # 500 =>
      written \subseteq DOMAIN index[loc[p].ws]

\* C11 as stated: the index rebuilt from the content files that Put wrote holds,
\* for each file read, an entry whose title and visibility are those the
\* document was written with (those of the index.json that Put persisted).
C11_RebuildKeepsTitleAndVisibility ==
  \A p \in Procs :
    pc[p] = "rb_write" /\ Has(files, IndexFile) =>
      \A d \in DOMAIN index[p] \cap DOMAIN files[IndexFile].documents :
        /\ index[p][d].title = files[IndexFile].documents[d].title
        /\ index[p][d].visibility = files[IndexFile].documents[d].visibility

\* A PUT whose id fails the pattern or whose caller has no identity.
MalformedPut(r) ==
  /\ r.op = "put"
  /\ \/ Len(r.docId) < MinIdLen
     \/ \E i \in 1..Len(r.docId) : r.docId[i] \notin WordChar
     \/ ~r.client.present
     \/ r.client.address = UNDEF

C13_SuccessMeansPersisted ==
  \A p \in Procs :
    /\ Done(p, "put") /\ resp[p].status = 200 =>
         /\ Has(files, DocFile(req[p].docId))
         /\ files[DocFile(req[p].docId)].body = resp[p].doc.body
         /\ Has(files, IndexFile)
         /\ Has(files[IndexFile].documents, req[p].docId)
    /\ Done(p, "delete") /\ resp[p].status = 200 =>
         /\ Has(files, IndexFile)
         /\ ~Has(files[IndexFile].documents, req[p].docId)

\* C14 as stated: the edit permission is true whenever the oracle lists the
\* caller in an elevated class, the editor class included: a Put by a caller in
\* the editor class is not refused for lack of permission.
C14_EditorClassMayEdit ==
  \A p \in Procs :
    /\ Done(p, "put") /\ epistery.attached
    /\ req[p].client.address \in Editors \ epistery.admins
    => resp[p].status # 403

\* The handler's step of a PUT of an existing private document by a caller who
\* is neither its owner nor listed as admin.
PutOfForeignPrivate(p) ==
  /\ pc[p] = "handler" /\ pc'[p] # "handler"
  /\ req'[p].op = "put"
  /\ Has(index[loc[p].ws], req'[p].docId)
  /\ index[loc[p].ws][req'[p].docId].visibility = "private"
  /\ index[loc[p].ws][req'[p].docId].owner # req'[p].client.address
  /\ req'[p].client.address \notin epistery.admins

C16_UnauthorizedIsNotForbidden ==
  \A p \in Procs :
    /\ Done(p, "put") \/ Done(p, "delete")
    /\ ~req[p].client.present
    => ~(resp[p].status = 403 /\ resp[p].error = "Permission required")

\* C17 as stated: as long as an entry exists in a state object's index its owner
\* does not change, under every interleaving of Puts (object storage).
C17_OwnerNeverChanges ==
  [][backend = "storj" =>
       \A ws \in Procs : \A d \in DOMAIN index[ws] \cap DOMAIN index'[ws] :
         index'[ws][d].owner = index[ws][d].owner]_vars

\* C18: every entry, of every in-memory index and of the persisted index.json,
\* has _modified >= _created.
C18_ModifiedNotBeforeCreated ==
  /\ \A ws \in Procs : \A d \in DOMAIN index[ws] :
       index[ws][d]._modified >= index[ws][d]._created
  /\ Has(files, IndexFile) =>
       \A d \in DOMAIN files[IndexFile].documents :
         files[IndexFile].documents[d]._modified
           >= files[IndexFile].documents[d]._created

\* An entry modified later than it was created, by another caller, while two
\* Puts of it overlapped.
C18_Witness ==
  \E ws \in Procs : \E d \in DOMAIN index[ws] :
    /\ index[ws][d]._modified > index[ws][d]._created
    /\ index[ws][d]._modifiedBy # index[ws][d]._createdBy
    /\ lastPut.op = "put" /\ lastPut.rivals # {}

\* C19 as stated: the visibility of every entry is "public" or "private".
C19_VisibilityIsPublicOrPrivate ==
  \A ws \in Procs : \A d \in DOMAIN index[ws] :
    index[ws][d].visibility \in {"public", "private"}

\* C20 as stated: when a Put and a Delete of one id overlapped (the Delete
\* returned while the Put was writing index.json; object storage, no storage
\* call failed, one state object) and both have returned, the final state is
\* that of the two run one after the other: the id is absent from memory and
\* index.json, or present in both with the same entry, owned by the Put's caller.
C20_PutDeleteSerialized ==
  /\ AllQuiet /\ lastPut.op = "put" /\ lastPut.docId \in lastDel
  /\ lastPut.rivals = {}
  /\ backend = "storj" /\ faults = 0 /\ built <= 1 /\ cached # 0
  => LET d == lastPut.docId
         mem == index[cached]
     IN /\ Has(files, IndexFile)
        /\ \/ ~Has(mem, d) /\ ~Has(files[IndexFile].documents, d)
           \/ /\ Has(mem, d) /\ Has(files[IndexFile].documents, d)
              /\ files[IndexFile].documents[d] = mem[d]
              /\ mem[d].owner = lastPut.by

\* C21 as stated: a Delete of an existing document by its owner is not refused
\* (403), whether or not the oracle's answer about the admin role is at hand.
C21_OwnerMayDelete ==
  \A p \in Procs :
    /\ Done(p, "delete") /\ HasEntry(p)
    /\ req[p].client.address = EntryOf(p).owner
    => resp[p].status # 403

\* The entries a Put created: createIndexMeta gives every other one (rebuilt
\* from a content file) the creator "unknown".
CreatedByPut(meta) == meta._createdBy \in Addresses

\* C22: a Put writes its content file, then sets the entry in memory, then
\* writes index.json: a Put past its content write has its content file, and an
\* entry created by Put is never in a state object's index or in index.json
\* without its content file.
C22_EntryNeverBeforeContent ==
  /\ \A p \in Procs :
       pc[p] \in {"put_cont", "put_wi"} => Has(files, DocFile(req[p].docId))
  /\ \A ws \in Procs : \A d \in DOMAIN index[ws] :
       CreatedByPut(index[ws][d]) => Has(files, DocFile(d))
  /\ Has(files, IndexFile) =>
       \A d \in DOMAIN files[IndexFile].documents :
         CreatedByPut(files[IndexFile].documents[d]) => Has(files, DocFile(d))

\* A first Put between its second and third step: content written, entry set,
\* index.json not yet written.
C22_Witness ==
  \E p \in Procs :
    /\ pc[p] = "put_wi" /\ HasEntry(p)
    /\ CreatedByPut(EntryOf(p))
    /\ Has(files, DocFile(req[p].docId))
    /\ ~Has(files, IndexFile)

\* The origin fields of an entry or document.
Origin(e) == <<e.owner, e._createdBy, e._created>>

\* C23: with one request at a time, the step of a Put that sets the entry gives
\* it the owner, _createdBy and _created of the prior entry when there is one,
\* and otherwise the caller and the current time; _modified and _modifiedBy are
\* the current time and the caller; and the document a Put returns carries the
\* same five values as the entry stored.
C23_PutCarriesOriginForward ==
  [][\A p \in Procs :
       /\ pc[p] = "put_cont" /\ pc'[p] \in {"put_wi", "done"} =>
            LET ws == loc[p].ws
                d == req[p].docId
                who == req[p].client.address
                e == index'[ws][d]
            IN /\ Has(index'[ws], d)
               /\ Origin(e) = IF Has(index[ws], d) THEN Origin(index[ws][d])
                              ELSE <<who, who, clock>>
               /\ e._modified = clock
               /\ e._modifiedBy = who
       /\ pc[p] \in {"put_cont", "put_wi"} /\ pc'[p] = "done" =>
            LET e == index'[loc[p].ws][req[p].docId]
            IN /\ resp'[p].status = 200
               /\ Origin(resp'[p].doc) = Origin(e)
               /\ resp'[p].doc._modified = e._modified
               /\ resp'[p].doc._modifiedBy = e._modifiedBy]_vars

\* A second Put, later and by another caller than the first, has returned.
C23_Witness ==
  \E p \in Procs :
    /\ Done(p, "put") /\ resp[p].status = 200 /\ HasEntry(p)
    /\ EntryOf(p).owner \in Addresses \ {req[p].client.address}
    /\ EntryOf(p)._modifiedBy = req[p].client.address
    /\ EntryOf(p)._created < EntryOf(p)._modified
    /\ resp[p].doc.owner = EntryOf(p).owner

\* The content files of the store.
ContentFiles == {f \in DOMAIN files : IsDocFile(f)}

\* C24: the rebuild's scan never raises to the caller: it ends with the state
\* cached or with the write of index.json issued; and when k reads of content
\* files failed, the index holds, for all content files but k of them, an entry
\* under the id the rebuild derives from the file's name, with the title of a
\* file read under that id (two file names can give one id).
C24_RebuildSkipsBadFiles ==
  [][\A p \in Procs :
       pc[p] = "rb_list" /\ pc'[p] # "rb_list" /\ pc'[p] # "idle" =>
         /\ pc'[p] \in {"rb_write", "handler"}
         /\ pc'[p] = "rb_write" =>
              \E bad \in SUBSET ContentFiles :
                /\ Cardinality(bad) = faults' - faults
                /\ \A f \in ContentFiles \ bad :
                     /\ Has(index'[p], RebuiltId(f))
                     /\ \E g \in ContentFiles \ bad :
                          /\ RebuiltId(g) = RebuiltId(f)
                          /\ index'[p][RebuiltId(f)].title = files[g].title]_vars

\* A rebuild that skipped one content file and read another.
C24_Witness ==
  \E p \in Procs :
    /\ pc[p] = "rb_write" /\ faults = 1
    /\ Cardinality(ContentFiles) = 2
    /\ Cardinality(DOMAIN index[p]) = 1

\* C25 as stated: every rebuild that ends with no storage call failing has
\* written index.json with the reconstructed index when getDomainState caches
\* the state and returns, also when it found no document.
C25_RebuildAlwaysPersists ==
  [][\A p \in Procs :
       pc[p] \in {"rb_list", "rb_write"} /\ pc'[p] = "handler" /\ faults' = faults =>
         /\ Has(files', IndexFile)
         /\ files'[IndexFile].documents = index'[p]]_vars

\* C25 amended: a rebuild that read at least one content file issues the write
\* of index.json and getDomainState caches the state only when that write has
\* ended: with the reconstructed index in index.json, or, the write failing,
\* with the store as it was.  A rebuild that read no content file (none listed,
\* none readable, or the listing failed) writes nothing.
C25_RebuildPersistsWhatItRead ==
  [][\A p \in Procs :
       /\ pc[p] = "rb_list" /\ pc'[p] \notin {"rb_list", "idle"} =>
            /\ files' = files
            /\ pc'[p] = "rb_write" <=> index'[p] # EmptyMap
            /\ pc'[p] = "rb_write" => cached' = cached
            /\ pc'[p] # "rb_write" => pc'[p] = "handler" /\ cached' = p
       /\ pc[p] = "rb_write" /\ pc'[p] \notin {"rb_write", "idle"} =>
            /\ pc'[p] = "handler" /\ cached' = p
            /\ index' = index
            /\ IF faults' = faults
                 THEN files' = MapSet(files, IndexFile, [documents |-> index[p]])
                 ELSE files' = files]_vars

\* A rebuild has written the entries of two content files to index.json and the
\* request has gone on to its handler.
C25_Witness ==
  \E p \in Procs :
    /\ pc[p] = "handler" /\ cached = p /\ rbWrites = 1 /\ written = {}
    /\ Has(files, IndexFile)
    /\ files[IndexFile].documents = index[p]
    /\ Cardinality(DOMAIN index[p]) = 2

\* C26 as stated: when a process restarted after a crash accesses the domain
\* (no storage call failing, the store not changed out-of-band), the index it
\* is served from holds an entry, under the document's id, for every document
\* whose content file a Put wrote and that was not deleted, on the local and on
\* the object-store backend: also for a Put that had not yet written index.json.
C26_OrphanAdoptedAfterRestart ==
  \A p \in Procs :
    pc[p] = "handler" /\ faults = 0 /\ ~lost =>
      \A d \in StoredIds \ lastDel :
        Has(files, DocFile(d)) => Has(index[loc[p].ws], d)

\* C27: a Get of an id whose entry exists and is not hidden from the caller,
\* and whose content file is missing or cannot be read or parsed, is answered
\* with absence (404, no document) and not with an error, and leaves the
\* in-memory index, the cache and the store unchanged.
C27_GetOfMissingContentIsAbsence ==
  [][\A p \in Procs :
       /\ pc[p] = "get_load" /\ pc'[p] \notin {"get_load", "idle"}
       /\ ~Has(files, DocFile(req[p].docId)) \/ faults' > faults
       => /\ pc'[p] = "done"
          /\ resp'[p].status = 404
          /\ "doc" \notin DOMAIN resp'[p]
          /\ UNCHANGED <<files, index, cached>>]_vars

\* A Get of an entry whose content file does not exist, answered with absence.
C27_Witness ==
  \E p \in Procs :
    /\ Done(p, "get") /\ HasEntry(p)
    /\ ~Has(files, DocFile(req[p].docId))
    /\ resp[p].status = 404
    /\ faults = 0

\* A step of a Get or of an index listing: the handler's, or the load's end.
ReadStep(p) ==
  \/ pc[p] = "handler" /\ pc'[p] \notin {"handler", "idle"}
                       /\ req'[p].op \in {"get", "index"}
  \/ pc[p] = "get_load" /\ pc'[p] \notin {"get_load", "idle"}

\* C28: every step of get() and of getIndex(), for every caller, id and state
\* (the template for an id without entry included), leaves every in-memory
\* index, the cache, index.json and the content files unchanged.
C28_ReadsChangeNothing ==
  [][\A p \in Procs : ReadStep(p) => UNCHANGED <<files, index, cached>>]_vars

\* The template was answered for an id without entry while other documents
\* exist, and no entry or file was made for it.
C28_Witness ==
  \E p \in Procs :
    /\ Done(p, "get") /\ resp[p].status = 200 /\ resp[p].doc._new
    /\ written # {} /\ ~HasEntry(p)
    /\ ~Has(files, DocFile(req[p].docId))
    /\ Has(files, IndexFile)

\* C29: a Put whose content write fails is answered with the error (500), and
\* neither the step that issued the write nor the one in which it failed
\* changes an in-memory index, the cache or the store, index.json included:
\* requests under way and later ones find the index as it was.
C29_FailedContentWriteChangesNothing ==
  [][\A p \in Procs :
       /\ pc[p] = "handler" /\ pc'[p] = "put_wc" => UNCHANGED <<files, index, cached>>
       /\ /\ pc[p] = "put_wc" \/ (pc[p] = "handler" /\ req'[p].op = "put")
          /\ pc'[p] \notin {pc[p], "idle"}
          /\ faults' > faults
          => /\ pc'[p] = "done"
             /\ resp'[p].status = 500
             /\ UNCHANGED <<files, index, cached>>]_vars

\* The content write of a Put failed on the object store while another Put of
\* the document was under way, and the Put was answered with the error.
C29_Witness ==
  \E p \in Procs :
    /\ Done(p, "put") /\ resp[p].status = 500 /\ resp[p].error = "storage"
    /\ backend = "storj" /\ faults = 1
    /\ \E q \in Procs \ {p} : pc[q] \in {"put_wc", "put_cont", "put_wi"}

\* C30 as stated: once all requests have been answered (object storage, no
\* storage call having failed, index.json not changed out-of-band), the documents
\* of index.json are the in-memory index that serves requests.
C30_IndexJsonEqualsMemoryWhenQuiet ==
  /\ AllQuiet /\ faults = 0 /\ ~lost /\ backend = "storj"
  /\ cached # 0 /\ Has(files, IndexFile)
  => files[IndexFile].documents = index[cached]

\* The object-store configuration of the domain is whole: readable, with the
\* agent address and the four storj keys.
Configured(c) ==
  /\ c.readable /\ c.agent_contract_address
  /\ c.ACCESS_KEY /\ c.SECRET_KEY /\ c.ENDPOINT /\ c.BUCKET

\* C32 as stated: on a first access StorageFactory.create builds the object
\* store when the domain's object-store configuration is whole, and otherwise
\* (absent, incomplete or unreadable) builds the local backend: creation does
\* not fail, and getDomainState goes on to read index.json.
C32_CreateFallsBackToLocal ==
  [][\A p \in Procs :
       pc[p] = "ds_create" /\ pc'[p] \notin {"ds_create", "idle"} =>
         /\ pc'[p] = "ds_read"
         /\ backend = IF Configured(config) THEN "storj" ELSE "config"]_vars


\* C31 as stated (the part about one domain's cached state): once a DomainState
\* is cached for the domain, the same state object, with its storage backend
\* and its Index, stays the cached one for as long as the process lives.
C31_StateObjectKept ==
  [][backend = "storj" /\ cached # 0 /\ cached' # 0 => cached' = cached]_vars


\* C33 as stated: with no storage call ever failing, a docId deleted with
\* success and not Put since is absent from every index a request is served
\* from, also after a restart and after a rebuild of the index.
C33_DeletedNeverResurrected ==
  faults = 0 =>
    \A d \in lastDel : \A p \in Procs :
      loc[p].ws # 0 => ~Has(index[loc[p].ws], d)


\* C34 as stated: the rebuild's write never replaces an index.json that is
\* in the store (an index.json in the store is parseable, so a rebuild that
\* runs beside it was started by a failed read, not by absence).
C34_RebuildNeverOverwritesIndexJson ==
  [][\A p \in Procs :
       pc[p] = "rb_write" /\ Has(files, IndexFile) =>
         Has(files', IndexFile) /\ files'[IndexFile] = files[IndexFile]]_vars


\* The ids an identity may see in a listing of ix: public or its own.
MayList(address, ix) ==
  {d \in DOMAIN ix : ix[d].visibility = "public" \/ ix[d].owner = address}

\* C35: the listing returned to an identity holds exactly the entries that are
\* public or owned by it, each id once, in the order of localeCompare on _id;
\* an entry that is not public and owned by someone else is not in it.
C35_ListingIsWhatCallerMaySee ==
  \A p \in Procs :
    Done(p, "index") /\ Resolved(req[p].client) /\ resp[p].status # 500 =>
      LET ix == index[loc[p].ws]
          list == resp[p].list
      IN /\ resp[p].status = 200
         /\ {list[i]._id : i \in 1..Len(list)} = MayList(req[p].client.address, ix)
         /\ \A i, j \in 1..Len(list) : i < j => LocaleLess(list[i]._id, list[j]._id)
         /\ \A i \in 1..Len(list) :
              /\ list[i].title = ix[list[i]._id].title
              /\ list[i].visibility = "public" \/ ix[list[i]._id].owner = req[p].client.address

\* A listing that shows one entry and hides a private entry of someone else.
C35_Witness ==
  \E p \in Procs :
    /\ Done(p, "index") /\ resp[p].status = 200
    /\ Len(resp[p].list) >= 1
    /\ \E d \in DOMAIN index[loc[p].ws] :
         /\ index[loc[p].ws][d].visibility # "public"
         /\ index[loc[p].ws][d].owner # req[p].client.address


\* C36 as stated: for a document written under a valid id d, the id the
\* rebuild derives from its content filename is d; two valid ids never share
\* a content filename or a rebuilt id; and no content filename is index.json.
C36_FilenameRoundTrip ==
  \A d \in written :
    /\ ValidId(d) /\ Has(files, DocFile(d)) => RebuiltId(DocFile(d)) = d
    /\ DocFile(d) # IndexFile
    /\ \A e \in written :
         e # d => DocFile(e) # DocFile(d) /\ RebuiltId(DocFile(e)) # RebuiltId(DocFile(d))


\* C37: while StorageFactory.create throws for the domain, no DomainState is
\* cached and no request holds one: every request is either still at the
\* construction it attempts anew or was answered with the failure, and none
\* reaches a handler; nothing is built, read or written.
C37_FailedConstructionCachesNothing ==
  ~Initializes(config) /\ DetectType(config) = "storj" =>
    /\ cached = 0 /\ built = 0
    /\ files = EmptyMap
    /\ \A p \in Procs :
         /\ loc[p].ws = 0
         /\ index[p] = EmptyMap
         /\ pc[p] \in {"idle", "ds_create", "done"}
         /\ pc[p] = "done" => resp[p].status = 500

\* A request after an earlier one of the same domain failed at construction,
\* itself answered with the failure of its own attempt.
C37_Witness ==
  \E p \in Procs :
    /\ ~Initializes(config) /\ DetectType(config) = "storj"
    /\ pc[p] = "done" /\ resp[p].status = 500
    /\ budget <= MaxSeqOps - 2
    /\ cached = 0


\* The responses that carry a permission triple.
WithPerms == {p \in Procs : pc[p] = "done" /\ "perms" \in DOMAIN resp[p]}

\* C38: for every caller and every outcome of the oracle's call getPermissions
\* yields a triple with read true and admin only together with edit; with no
\* identity, no oracle attached or an oracle that raised, edit and admin are
\* false.  Every triple sent in a response is of this kind, and a Get by a
\* resolved caller is never answered 500, whatever the oracle did.
C38_PermissionsFailClosed ==
  /\ \A c \in Clients, oerr \in BOOLEAN :
       LET r == getPermissions(c, oerr)
       IN /\ r.read
          /\ r.admin => r.edit
          /\ ~c.present \/ ~epistery.attached \/ oerr => ~r.edit /\ ~r.admin
  /\ \A p \in WithPerms :
       /\ resp[p].perms.read
       /\ resp[p].perms.admin => resp[p].perms.edit
       /\ ~req[p].client.present \/ ~epistery.attached =>
            ~resp[p].perms.edit /\ ~resp[p].perms.admin
  /\ \A p \in Procs :
       Done(p, "get") /\ Resolved(req[p].client) => resp[p].status # 500

\* A Get by a listed admin answered 200 with edit and admin false: the oracle
\* raised an error and the request went on with read only.
C38_Witness ==
  \E p \in WithPerms :
    /\ req[p].op = "get" /\ resp[p].status = 200
    /\ Resolved(req[p].client) /\ epistery.attached
    /\ isListed(req[p].client.address)
    /\ resp[p].perms = [admin |-> FALSE, edit |-> FALSE, read |-> TRUE]

====
